---- MODULE Spec2Model ----
(***************************************************************************)
(* Live tracking maps: the position generator, the in-memory event store   *)
(* and its publish/subscribe fan-out (server), and the map / notification  *)
(* state a browser client rebuilds from the live stream (ui).              *)
(*                                                                         *)
(* Angles are integers in units of 1e-7 degree, so that the generator's    *)
(* rounding to 6 decimals (1e-6 degree) is a real conversion.  Event       *)
(* coordinates are integers in units of 1e-6 degree.                       *)
(***************************************************************************)
EXTENDS Integers, Sequences, FiniteSets, TLC

VARIABLES
    \* ---- server/src/geo-simulator.ts
    now,                 \* the wall clock read by Date.now(), in ms
    counter,             \* let counter = 0
    currentPositions,    \* Map<string, {lat, lon}> keyed by vehicle id
    \* ---- server/src/resolvers.ts
    geoDataStore,        \* const geoDataStore: GeoData[]
    held,                \* what each caller of Query.geoDataList got back
    \* ---- server/src/geo-simulator.ts, startGeoSimulator
    simulator,           \* the pool it was built with and whether it runs
    iterators,           \* the async iterators pubsub.asyncIterator has made
    sessions,            \* one subscription operation per connected consumer
    \* ---- ui: Map.tsx (refs) and App (state)
    geoDataByIdentifier, \* useRef<Map<string, GeoData[]>>
    pointsSource,        \* the point features of the points VectorSource
    linesSource,         \* the line features of the lines VectorSource
    filteredIdentifiers, \* useState<Set<string>>
    recentData,          \* useState<GeoData[]>
    notifications,       \* useState<GeoData[]>
    focusPoint,          \* useState<GeoData | null>: <<>> for null, else <<data>>
    \* ---- ui: the subscription transport and useSubscription
    ws,                  \* the graphql-ws client: connection and retry state
    subscriptionData,    \* useSubscription's data: <<>> for undefined
    effectPending,       \* a render with new data whose effect has not run
    \* ---- history of the client run (not program state)
    incoming,            \* every event the transport handed to useSubscription
    arrived,             \* every event the new-data effect has processed
    uiActed              \* TRUE once a notification was clicked or cleared

serverVars == <<now, counter, currentPositions, geoDataStore, iterators, sessions,
                held, simulator>>
streamVars == <<ws, subscriptionData, effectPending, incoming>>
clientVars == <<geoDataByIdentifier, pointsSource, linesSource, filteredIdentifiers,
                recentData, notifications, focusPoint, arrived, uiActed,
                ws, subscriptionData, effectPending, incoming>>
vars == <<now, counter, currentPositions, geoDataStore, iterators, sessions,
          held, simulator,
          geoDataByIdentifier, pointsSource, linesSource, filteredIdentifiers,
          recentData, notifications, focusPoint, arrived, uiActed,
          ws, subscriptionData, effectPending, incoming>>

----
\* Bounds of the model.

\* Math.random() is drawn from { k / RandomRes : k \in 0 .. RandomRes - 1 }.
RandomRes == 3
\* Ticks of the generator explored in the generator specification.
MaxGenTicks == 2
\* Pool members the generator specification lets Math.random() pick.
NumGenVehicles == 2
\* Ticks of the generator explored in the live-client specification.
MaxLiveTicks == 2
\* Failed retries explored where the client is configured to retry for ever.
MaxRetriesExplored == 6
\* Ticks of the generator explored in the event-id specification.
MaxIdTicks == 4
\* Ticks of the generator explored in the store specification.
MaxStoreTicks == 3
\* Callers of the snapshot query.
MaxCallers == 2
\* Ticks of the generator explored in the broker specification.
MaxTicks == 3
\* Subscription operations that may be opened in the broker specification.
MaxSessions == 2
\* Consumers that subscribe in the fair broker specification.
MaxFairSessions == 1
\* Events that arrive at the client in the client specification.
MaxClientEvents == 3
\* Pool members whose events arrive, and whose checkboxes are clicked.
NumClientVehicles == 2
\* Events that arrive at the client in the long-run specification.
MaxCapEvents == 103
\* In the long-run specification the user clicks and clears only while at
\* most this many events have arrived.
CapUiWindow == 3

----
\* Generic helpers.

Min(a, b) == IF a < b THEN a ELSE b
Max(a, b) == IF a > b THEN a ELSE b

Range(s) == { s[i] : i \in 1 .. Len(s) }

\* Array.prototype.slice(-n), n > 0: the last n elements (all if fewer).
SliceLast(s, n) == SubSeq(s, Max(1, Len(s) - n + 1), Len(s))

----
\* server/src/geo-simulator.ts

BOUNDS == [minLat |-> 350000000, maxLat |-> 600000000,
           minLon |-> -100000000, maxLon |-> 300000000]

IDENTIFIER_POOL == <<
    [id |-> "VEHICLE-001", name |-> "Truck Alpha", lat |-> 525200000, lon |-> 134050000],
    [id |-> "VEHICLE-002", name |-> "Van Beta",    lat |-> 488566000, lon |-> 23522000],
    [id |-> "VEHICLE-003", name |-> "Car Gamma",   lat |-> 515074000, lon |-> -1278000],
    [id |-> "VEHICLE-004", name |-> "Bike Delta",  lat |-> 419028000, lon |-> 124964000],
    [id |-> "VEHICLE-005", name |-> "Drone Echo",  lat |-> 523676000, lon |-> 49041000] >>

VehicleIds == { IDENTIFIER_POOL[i].id : i \in 1 .. Len(IDENTIFIER_POOL) }

\* IDENTIFIER_POOL.forEach(v => currentPositions.set(v.id, {lat, lon}))
PoolPositions ==
    [id \in VehicleIds |->
        LET v == CHOOSE p \in Range(IDENTIFIER_POOL) : p.id = id
        IN  [lat |-> v.lat, lon |-> v.lon]]

\* (Math.random() - 0.5) * 0.3 for Math.random() = k / RandomRes, in 1e-7 degree.
Delta_Wide(k) == ((2 * k - RandomRes) * 6000000) \div (2 * RandomRes)
Delta(k) == ((2 * k - RandomRes) * 3000000) \div (2 * RandomRes)

\* Math.max(lo, Math.min(hi, x))
Clamp_NoLower(lo, hi, x) == Min(hi, x)
Clamp_NoUpper(lo, hi, x) == Max(lo, x)
Clamp(lo, hi, x) == Max(lo, Min(hi, x))

\* Math.round(x * 1000000) / 1000000: x in 1e-7 degree, result in 1e-6 degree.
\* Math.round rounds a half towards +infinity.
Round6(x) == (x + 5) \div 10

\* The position written back by generateRandomGeoData for the member at pos.
NextPosition(pos, kLat, kLon) ==
    [lat |-> Clamp(BOUNDS.minLat, BOUNDS.maxLat, pos.lat + Delta(kLat)),
     lon |-> Clamp(BOUNDS.minLon, BOUNDS.maxLon, pos.lon + Delta(kLon))]

\* The GeoData object generateRandomGeoData returns; c is the incremented counter.
\* The id as the string the template literal `geo-${Date.now()}-${counter}`
\* builds: the characters of "geo-", the decimal digits of the time, "-", and
\* the decimal digits of the counter.
RECURSIVE Digits(_)
Digits(n) ==
    LET d == <<"0", "1", "2", "3", "4", "5", "6", "7", "8", "9">>[(n % 10) + 1]
    IN  IF n < 10 THEN <<d>> ELSE Append(Digits(n \div 10), d)

IdString(id) == <<"g", "e", "o", "-">> \o Digits(id[2]) \o <<"-">> \o Digits(id[3])

MakeGeoData_NoCounter(vehicle, newPos, t, c) ==
    [id         |-> <<"geo", t, 0>>,
     name       |-> vehicle.name,
     lat        |-> Round6(newPos.lat),
     lon        |-> Round6(newPos.lon),
     identifier |-> vehicle.id,
     timestamp  |-> t]
MakeGeoData(vehicle, newPos, t, c) ==
    [id         |-> <<"geo", t, c>>,
     name       |-> vehicle.name,
     lat        |-> Round6(newPos.lat),
     lon        |-> Round6(newPos.lon),
     identifier |-> vehicle.id,
     timestamp  |-> t]

\* One generator step: generateRandomGeoData picks pool member number i with
\* Math.random() draws kLat / RandomRes and kLon / RandomRes, dt ms after the
\* previous call.  The function's three effects: counter++, the position
\* written back, and the returned event.
generateRandomGeoData_WritesAll(i, kLat, kLon, dt) ==
    LET vehicle == IDENTIFIER_POOL[i]
        newPos  == NextPosition(currentPositions[vehicle.id], kLat, kLon)
    IN  [counter   |-> counter + 1,
         positions |-> [id \in DOMAIN currentPositions |-> newPos],
         geoData   |-> MakeGeoData(vehicle, newPos, now + dt, counter + 1)]
generateRandomGeoData(i, kLat, kLon, dt) ==
    LET vehicle == IDENTIFIER_POOL[i]
        newPos  == NextPosition(currentPositions[vehicle.id], kLat, kLon)
    IN  [counter   |-> counter + 1,
         positions |-> [currentPositions EXCEPT ![vehicle.id] = newPos],
         geoData   |-> MakeGeoData(vehicle, newPos, now + dt, counter + 1)]

----
\* server/src/resolvers.ts and the PubSub it publishes through.

\* A subscription operation: its state, the iterator subscribe returned, what
\* its consumer has been handed (received), whether a read is pending
\* (waiting) or has ended with done; start and stop record the store length
\* when it was opened and when it was cancelled.
NoSession == [state |-> "NONE", iter |-> 0, start |-> 0, stop |-> 0,
              received |-> <<>>, waiting |-> FALSE, done |-> FALSE]

\* An iterator that has not been made yet: it listens to nothing.
NoIterator == [made |-> FALSE, running |-> FALSE, pushQueue |-> <<>>, pullQueue |-> <<>>]

\* new PubSubAsyncIterator: running, nothing queued, no read pending.
NewIterator == [made |-> TRUE, running |-> TRUE, pushQueue |-> <<>>, pullQueue |-> <<>>]

\* pubsub.asyncIterator([NEW_GEO_DATA]): a fresh iterator on every call; the
\* one made for subscription operation s is named s.
asyncIterator(s) == s

\* Subscription.newGeoData.subscribe: () => pubsub.asyncIterator([NEW_GEO_DATA])
subscribe_Shared(s) == Min(asyncIterator(s), 1)
subscribe(s) == asyncIterator(s)

\* The iterator's listener on one published event: hand it to the oldest
\* pending read, or queue it.  A returned iterator has no listener any more.
pushValue(it, event) ==
    IF ~it.running THEN it
    ELSE IF it.pullQueue # <<>> THEN [it EXCEPT !.pullQueue = Tail(@)]
    ELSE [it EXCEPT !.pushQueue = Append(@, event)]

\* The session whose pending read iterator k resolves with a published event.
Resolved(k) ==
    IF iterators[k].running /\ iterators[k].pullQueue # <<>>
    THEN {Head(iterators[k].pullQueue)} ELSE {}

\* pubsub.publish(NEW_GEO_DATA, {newGeoData: event}): every listener runs.
publish(event) ==
    /\ iterators' = [k \in DOMAIN iterators |-> pushValue(iterators[k], event)]
    /\ sessions' = [s \in DOMAIN sessions |->
          IF \E k \in DOMAIN iterators : s \in Resolved(k)
          THEN [sessions[s] EXCEPT !.received = Append(@, event), !.waiting = FALSE]
          ELSE sessions[s]]

\* addGeoData: push to the store, then publish.
addGeoData_NoStore(geoData) ==
    /\ geoDataStore' = geoDataStore
    /\ publish(geoData)
addGeoData_NoPublish(geoData) ==
    /\ geoDataStore' = Append(geoDataStore, geoData)
    /\ UNCHANGED <<iterators, sessions>>
addGeoData_PublishFirst(geoData) ==
    /\ geoDataStore' = Append(geoDataStore, geoData)
    /\ publish(IF geoDataStore = <<>> THEN geoData ELSE geoDataStore[1])
addGeoData_WaitsForReaders(geoData) ==
    /\ \A k \in DOMAIN iterators : iterators[k].running => iterators[k].pushQueue = <<>>
    /\ geoDataStore' = Append(geoDataStore, geoData)
    /\ publish(geoData)
addGeoData_Unshift(geoData) ==
    /\ geoDataStore' = <<geoData>> \o geoDataStore
    /\ publish(geoData)
addGeoData(geoData) ==
    /\ geoDataStore' = Append(geoDataStore, geoData)
    /\ publish(geoData)

\* The setInterval callback of startGeoSimulator.
Tick(i, kLat, kLon, dt) ==
    LET g == generateRandomGeoData(i, kLat, kLon, dt)
    IN  /\ now' = now + dt
        /\ counter' = g.counter
        /\ currentPositions' = g.positions
        /\ addGeoData(g.geoData)
        /\ UNCHANGED <<held, simulator>>
        /\ UNCHANGED clientVars

\* A consumer opens the newGeoData subscription: the transport calls the
\* subscribe resolver and from then on reads the iterator it returned.
Subscribe(s) ==
    /\ sessions[s].state = "NONE"
    /\ LET k == subscribe(s)
       IN  /\ iterators' = IF ~iterators[k].made THEN [iterators EXCEPT ![k] = NewIterator]
                           ELSE iterators
           /\ sessions' = [sessions EXCEPT ![s] =
                 [state |-> "ACTIVE", iter |-> k, start |-> Len(geoDataStore),
                  stop |-> 0, received |-> <<>>, waiting |-> FALSE, done |-> FALSE]]
    /\ UNCHANGED <<now, counter, currentPositions, geoDataStore, held, simulator>>
    /\ UNCHANGED clientVars

\* The consumer of session s calls iterator.next().
ConsumerNext(s) ==
    /\ sessions[s].state # "NONE"
    /\ ~sessions[s].waiting
    /\ ~sessions[s].done
    /\ LET k  == sessions[s].iter
           it == iterators[k]
       IN  IF ~it.running
           THEN /\ sessions' = [sessions EXCEPT ![s].done = TRUE]
                /\ UNCHANGED iterators
           ELSE IF it.pushQueue # <<>>
           THEN /\ sessions' = [sessions EXCEPT ![s].received = Append(@, Head(it.pushQueue))]
                /\ iterators' = [iterators EXCEPT ![k].pushQueue = Tail(@)]
           ELSE /\ sessions' = [sessions EXCEPT ![s].waiting = TRUE]
                /\ iterators' = [iterators EXCEPT ![k].pullQueue = Append(@, s)]
    /\ UNCHANGED <<now, counter, currentPositions, geoDataStore, held, simulator>>
    /\ UNCHANGED clientVars

\* The consumer of session s completes or disconnects: the transport calls
\* iterator.return(), which stops the iterator, ends its pending reads with
\* done and drops what was queued.
Unsubscribe(s) ==
    /\ sessions[s].state = "ACTIVE"
    /\ LET k  == sessions[s].iter
           it == iterators[k]
       IN  /\ iterators' = [iterators EXCEPT ![k] =
                 [made |-> TRUE, running |-> FALSE, pushQueue |-> <<>>, pullQueue |-> <<>>]]
           /\ sessions' = [t \in DOMAIN sessions |->
                 LET ended == it.running /\ t \in Range(it.pullQueue)
                     st    == IF t = s THEN "CANCELLED" ELSE sessions[t].state
                 IN  [sessions[t] EXCEPT !.state = st,
                                         !.stop = IF t = s THEN Len(geoDataStore) ELSE @,
                                         !.waiting = IF ended THEN FALSE ELSE @,
                                         !.done = IF ended THEN TRUE ELSE @]]
    /\ UNCHANGED <<now, counter, currentPositions, geoDataStore, held, simulator>>
    /\ UNCHANGED clientVars

----
\* ui: Map.tsx (MapView), App (part_003), NotificationBell.tsx, Sidebar.

\* ol/proj fromLonLat: [lon, lat] to a map coordinate in EPSG:3857.
fromLonLat(lonLat) == <<"EPSG:3857", lonLat[1], lonLat[2]>>

\* geoDataByIdentifier.current.get(identifier) || []
TrailOf(trails, identifier) ==
    IF identifier \in DOMAIN trails THEN trails[identifier] ELSE <<>>

\* identifierData.push(geoData); geoDataByIdentifier.current.set(identifier, identifierData)
TrailsAfter_Capped(trails, geoData) ==
    [id \in DOMAIN trails \cup {geoData.identifier} |->
        IF id = geoData.identifier
        THEN SliceLast(Append(TrailOf(trails, id), geoData), 100) ELSE trails[id]]
TrailsAfter(trails, geoData) ==
    [id \in DOMAIN trails \cup {geoData.identifier} |->
        IF id = geoData.identifier
        THEN Append(TrailOf(trails, id), geoData) ELSE trails[id]]

\* getFeatures().forEach(f => { if (f.get('identifier') === identifier &&
\* f.get('isLatest')) f.set('isLatest', false) })
ClearLatest_LastOnly(features, identifier) ==
    [i \in DOMAIN features |->
        IF i = Len(features) /\ features[i].identifier = identifier /\ features[i].isLatest
        THEN [features[i] EXCEPT !.isLatest = FALSE] ELSE features[i]]
ClearLatest(features, identifier) ==
    [i \in DOMAIN features |->
        IF features[i].identifier = identifier /\ features[i].isLatest
        THEN [features[i] EXCEPT !.isLatest = FALSE] ELSE features[i]]

\* new Feature({geometry: new Point(...), ..., isLatest: true, pointIndex});
\* setId(geoData.id).  A new feature has no style of its own ("layer": it is
\* drawn with the layer's style); "empty" is new Style({}), which draws nothing.
PointFeature_NotLatest(geoData, pointIndex) ==
    [id         |-> geoData.id,
     geometry   |-> fromLonLat(<<geoData.lon, geoData.lat>>),
     name       |-> geoData.name,
     identifier |-> geoData.identifier,
     lat        |-> geoData.lat,
     lon        |-> geoData.lon,
     timestamp  |-> geoData.timestamp,
     isLatest   |-> FALSE,
     pointIndex |-> pointIndex,
     style      |-> "layer"]
PointFeature(geoData, pointIndex) ==
    [id         |-> geoData.id,
     geometry   |-> fromLonLat(<<geoData.lon, geoData.lat>>),
     name       |-> geoData.name,
     identifier |-> geoData.identifier,
     lat        |-> geoData.lat,
     lon        |-> geoData.lon,
     timestamp  |-> geoData.timestamp,
     isLatest   |-> TRUE,
     pointIndex |-> pointIndex,
     style      |-> "layer"]

\* identifierData.map(d => fromLonLat([d.lon, d.lat]))
RouteCoords(identifierData) ==
    [i \in DOMAIN identifierData |->
        fromLonLat(<<identifierData[i].lon, identifierData[i].lat>>)]

\* `line-${identifier}`
LineFeatureId(identifier) == <<"line", identifier>>

\* The route line update: with at least 2 points, set the coordinates of the
\* existing line of this identifier, or add a new line feature.
LinesAfter_NoUpdate(lines, identifier, identifierData) ==
    IF Len(identifierData) >= 2 /\ ~\E i \in DOMAIN lines : lines[i].id = LineFeatureId(identifier)
    THEN Append(lines, [id         |-> LineFeatureId(identifier),
                        identifier |-> identifier,
                        coords     |-> RouteCoords(identifierData),
                        style      |-> "layer"])
    ELSE lines
LinesAfter(lines, identifier, identifierData) ==
    IF Len(identifierData) >= 2
    THEN IF \E i \in DOMAIN lines : lines[i].id = LineFeatureId(identifier)
         THEN [i \in DOMAIN lines |->
                  IF lines[i].id = LineFeatureId(identifier)
                  THEN [lines[i] EXCEPT !.coords = RouteCoords(identifierData)]
                  ELSE lines[i]]
         ELSE Append(lines, [id         |-> LineFeatureId(identifier),
                             identifier |-> identifier,
                             coords     |-> RouteCoords(identifierData),
                             style      |-> "layer"])
    ELSE lines

\* filteredIdentifiers.size === 0 || filteredIdentifiers.has(identifier)
Visible(filter, identifier) == filter = {} \/ identifier \in filter

\* The filter effect: feature.setStyle(visible ? undefined : new Style({}))
\* on every feature of a source.
ApplyFilter_Removes(features, filter) ==
    SelectSeq(features, LAMBDA f : Visible(filter, f.identifier))
ApplyFilter(features, filter) ==
    [i \in DOMAIN features |->
        [features[i] EXCEPT !.style =
            IF Visible(filter, features[i].identifier) THEN "layer" ELSE "empty"]]

\* App.handleNewGeoData: the two state updaters.
RecentAfter(prev, data) == SliceLast(prev, 50) \o <<data>>
NotificationsAfter_Prepend(prev, data) == <<data>> \o SliceLast(prev, 99)
NotificationsAfter_OffByOne(prev, data) == SliceLast(prev, 100) \o <<data>>
NotificationsAfter(prev, data) == SliceLast(prev, 99) \o <<data>>

handleNewGeoData(data) ==
    /\ recentData' = RecentAfter(recentData, data)
    /\ notifications' = NotificationsAfter(notifications, data)

\* The "new geo data" effect of MapView, run when the subscription hands the
\* component a new event.
NewGeoDataEffect_GlobalIndex(geoData) ==
    LET identifierData == Append(TrailOf(geoDataByIdentifier, geoData.identifier), geoData)
    IN  /\ handleNewGeoData(geoData)
        /\ geoDataByIdentifier' = TrailsAfter(geoDataByIdentifier, geoData)
        /\ pointsSource' = Append(ClearLatest(pointsSource, geoData.identifier),
                                  PointFeature(geoData, Len(pointsSource) + 1))
        /\ linesSource' = LinesAfter(linesSource, geoData.identifier, identifierData)
        /\ arrived' = Append(arrived, geoData)
        /\ UNCHANGED <<filteredIdentifiers, focusPoint, uiActed>>
        /\ UNCHANGED serverVars
NewGeoDataEffect(geoData) ==
    LET identifierData == Append(TrailOf(geoDataByIdentifier, geoData.identifier), geoData)
    IN  /\ handleNewGeoData(geoData)
        /\ geoDataByIdentifier' = TrailsAfter(geoDataByIdentifier, geoData)
        /\ pointsSource' = Append(ClearLatest(pointsSource, geoData.identifier),
                                  PointFeature(geoData, Len(identifierData)))
        /\ linesSource' = LinesAfter(linesSource, geoData.identifier, identifierData)
        /\ arrived' = Append(arrived, geoData)
        /\ UNCHANGED <<filteredIdentifiers, focusPoint, uiActed>>
        /\ UNCHANGED serverVars

\* onFilterChange = setFilteredIdentifiers: the state changes, MapView renders
\* again and its filter effect restyles every point and line feature.
onFilterChange(newFiltered) ==
    /\ filteredIdentifiers' = newFiltered
    /\ pointsSource' = ApplyFilter(pointsSource, newFiltered)
    /\ linesSource' = ApplyFilter(linesSource, newFiltered)
    /\ UNCHANGED <<geoDataByIdentifier, recentData, notifications, focusPoint,
                   arrived, uiActed>>
    /\ UNCHANGED streamVars
    /\ UNCHANGED serverVars

\* Sidebar.handleCheckboxChange(identifier, checked)
\* The set it builds: a copy of the filter with the identifier added if
\* checked, deleted if not.
CheckboxFilter(filter, identifier, checked) ==
    IF checked THEN filter \cup {identifier} ELSE filter \ {identifier}

handleCheckboxChange(identifier, checked) ==
    onFilterChange(CheckboxFilter(filteredIdentifiers, identifier, checked))

\* The checkbox of a vehicle: shown checked when the vehicle is visible; a
\* click reports the opposite of what is shown.
CheckboxClick(identifier) ==
    handleCheckboxChange(identifier, ~Visible(filteredIdentifiers, identifier))

\* Sidebar.handleSelectAll (the All chip)
handleSelectAll == onFilterChange(VehicleIds)

\* Sidebar.handleClearAll (the None chip)
handleClearAll == onFilterChange({})

\* handleNotificationClick (NotificationBell, then App): drop the clicked
\* notification and focus the map on its point.
handleNotificationClick_Inverted(data) ==
    /\ notifications' = SelectSeq(notifications, LAMBDA n : n.id = data.id)
    /\ focusPoint' = <<data>>
    /\ uiActed' = TRUE
    /\ UNCHANGED <<geoDataByIdentifier, pointsSource, linesSource,
                   filteredIdentifiers, recentData, arrived>>
    /\ UNCHANGED streamVars
    /\ UNCHANGED serverVars
handleNotificationClick(data) ==
    /\ notifications' = SelectSeq(notifications, LAMBDA n : n.id # data.id)
    /\ focusPoint' = <<data>>
    /\ uiActed' = TRUE
    /\ UNCHANGED <<geoDataByIdentifier, pointsSource, linesSource,
                   filteredIdentifiers, recentData, arrived>>
    /\ UNCHANGED streamVars
    /\ UNCHANGED serverVars

\* App.handleClearAllNotifications (the Clear All button)
handleClearAllNotifications_DropsOldest ==
    /\ notifications' = Tail(notifications)
    /\ uiActed' = TRUE
    /\ UNCHANGED <<geoDataByIdentifier, pointsSource, linesSource,
                   filteredIdentifiers, recentData, focusPoint, arrived>>
    /\ UNCHANGED streamVars
    /\ UNCHANGED serverVars
handleClearAllNotifications ==
    /\ notifications' = <<>>
    /\ uiActed' = TRUE
    /\ UNCHANGED <<geoDataByIdentifier, pointsSource, linesSource,
                   filteredIdentifiers, recentData, focusPoint, arrived>>
    /\ UNCHANGED streamVars
    /\ UNCHANGED serverVars


----
\* The snapshot query.

\* No caller holds a result.
NoResults == [c \in 1 .. MaxCallers |-> <<>>]

\* Query.geoDataList: (): GeoData[] => geoDataStore.  The value returned is the
\* module's array object itself, not a new array.
geoDataList == [array |-> "geoDataStore", items |-> <<>>]

\* The elements a caller sees when it reads an array value it holds: those of
\* the live object if the value is that object, else its own items.
Deref(value) == IF value.array = "geoDataStore" THEN geoDataStore ELSE value.items

\* Caller c runs the geoDataList query and keeps what it returned; taken
\* records the store's contents at that moment.
Query(c) ==
    /\ held' = [held EXCEPT ![c] = <<[result |-> geoDataList, taken |-> geoDataStore]>>]
    /\ UNCHANGED <<now, counter, currentPositions, geoDataStore, iterators, sessions,
                   simulator>>
    /\ UNCHANGED clientVars

----
\* The subscription transport of the client.

\* The client before it connects: no socket, no server session serving its
\* subscription (session), none of that session's messages taken (seen), no
\* failed retry counted (retries), no wait in progress (wait, in ms).
NoConnection == [state |-> "idle", session |-> 0, seen |-> 0, retries |-> 0, wait |-> 0]

\* createClient({ retryAttempts: 5, shouldRetry: () => true })
retryAttempts_Unlimited == MaxRetriesExplored
retryAttempts == 5
shouldRetry == TRUE

\* The wait before retry number retries + 1: retryWait of the design document,
\* Math.min(1000 * Math.pow(2, retries), 30000).
RetryBaseMs == 1000
RetryCeilingMs == 30000
RECURSIVE Pow2(_)
Pow2(n) == IF n = 0 THEN 1 ELSE 2 * Pow2(n - 1)
retryWait(retries) == Min(RetryBaseMs * Pow2(retries), RetryCeilingMs)

\* The "log subscription status" effect of MapView: console.log only, so the
\* refs of MapView and the state of App stay as they are.
StatusEffect_Resets ==
    /\ geoDataByIdentifier' = [id \in {} |-> <<>>]
    /\ pointsSource' = <<>>
    /\ linesSource' = <<>>
    /\ UNCHANGED <<filteredIdentifiers, recentData, notifications, focusPoint,
                   arrived, uiActed>>
StatusEffect ==
    UNCHANGED <<geoDataByIdentifier, pointsSource, linesSource, filteredIdentifiers,
                recentData, notifications, focusPoint, arrived, uiActed>>

\* The session the next socket gets: sockets are numbered as they open.
FreeSessions ==
    { s \in DOMAIN sessions :
        /\ sessions[s].state = "NONE"
        /\ \A t \in DOMAIN sessions : t < s => sessions[t].state # "NONE" }

\* The socket opens (first connection, or a retry that succeeds): the
\* subscription is sent again on it, and the retry count starts over.
Connected(s) ==
    /\ ws' = [state |-> "connected", session |-> s, seen |-> 0, retries |-> 0, wait |-> 0]
    /\ UNCHANGED <<subscriptionData, effectPending, incoming>>
    /\ StatusEffect
    /\ UNCHANGED serverVars

\* After a close or a failed attempt with retries failed retries so far: wait
\* and try again if shouldRetry and retries < retryAttempts, else give up; the
\* subscription then ends with an error and useSubscription's data is undefined.
AfterClose(retries) ==
    IF shouldRetry /\ retries < retryAttempts
    THEN /\ ws' = [state |-> "waiting", session |-> 0, seen |-> 0,
                   retries |-> retries, wait |-> retryWait(retries)]
         /\ UNCHANGED subscriptionData
    ELSE /\ ws' = [state |-> "gaveUp", session |-> 0, seen |-> 0,
                   retries |-> retries, wait |-> 0]
         /\ subscriptionData' = <<>>

Connect == ws.state = "idle" /\ \E s \in FreeSessions : Connected(s)

ConnectionLost ==
    /\ ws.state = "connected"
    /\ AfterClose(ws.retries)
    /\ UNCHANGED <<effectPending, incoming>>
    /\ StatusEffect
    /\ UNCHANGED serverVars

RetryFails ==
    /\ ws.state = "waiting"
    /\ AfterClose(ws.retries + 1)
    /\ UNCHANGED <<effectPending, incoming>>
    /\ StatusEffect
    /\ UNCHANGED serverVars

RetrySucceeds == ws.state = "waiting" /\ \E s \in FreeSessions : Connected(s)

\* The next message of the client's session reaches useSubscription: data is
\* replaced by it and MapView is scheduled to render again.
MessageArrives ==
    /\ ws.state = "connected"
    /\ ws.seen < Len(sessions[ws.session].received)
    /\ LET event == sessions[ws.session].received[ws.seen + 1]
       IN  /\ subscriptionData' = <<event>>
           /\ incoming' = Append(incoming, event)
    /\ ws' = [ws EXCEPT !.seen = @ + 1]
    /\ effectPending' = TRUE
    /\ StatusEffect
    /\ UNCHANGED serverVars

\* MapView renders with the data useSubscription holds at that moment and its
\* "new geo data" effect runs: if (!data?.newGeoData ...) return; else the
\* event is processed.
RunEffect ==
    /\ effectPending
    /\ effectPending' = FALSE
    /\ IF subscriptionData = <<>>
       THEN StatusEffect /\ UNCHANGED serverVars
       ELSE NewGeoDataEffect(subscriptionData[1])
    /\ UNCHANGED <<ws, subscriptionData, incoming>>

----
\* Initial states.

InitClient ==
    /\ geoDataByIdentifier = [id \in {} |-> <<>>]
    /\ pointsSource = <<>>
    /\ linesSource = <<>>
    /\ filteredIdentifiers = {}
    /\ recentData = <<>>
    /\ notifications = <<>>
    /\ focusPoint = <<>>
    /\ arrived = <<>>
    /\ uiActed = FALSE
    /\ ws = NoConnection
    /\ subscriptionData = <<>>
    /\ effectPending = FALSE
    /\ incoming = <<>>

InitServer ==
    /\ now = 0
    /\ counter = 0
    /\ currentPositions = PoolPositions
    /\ geoDataStore = <<>>
    /\ iterators = [k \in 1 .. MaxSessions |-> NoIterator]
    /\ sessions = [s \in 1 .. MaxSessions |-> NoSession]
    /\ held = NoResults
    /\ simulator = [state |-> "running", pool |-> IDENTIFIER_POOL]

----
\* The broker specification: one generator, MaxSessions consumers.

TickBroker ==
    /\ counter < MaxTicks
    /\ \E i \in {1} : Tick(i, RandomRes \div 2, RandomRes \div 2, 1)

NextBroker ==
    \/ TickBroker
    \/ \E s \in 1 .. MaxSessions : Subscribe(s)
    \/ \E s \in 1 .. MaxSessions : ConsumerNext(s)
    \/ \E s \in 1 .. MaxSessions : Unsubscribe(s)

InitBroker == InitServer /\ InitClient

SpecBroker == InitBroker /\ [][NextBroker]_vars

FairSessionIds == 1 .. Min(MaxFairSessions, MaxSessions)

NextBrokerFair ==
    \/ TickBroker
    \/ \E s \in FairSessionIds : Subscribe(s)
    \/ \E s \in FairSessionIds : ConsumerNext(s)
    \/ \E s \in FairSessionIds : Unsubscribe(s)

\* The fair broker specification: every consumer keeps reading, that is, a
\* read it can issue is eventually issued.
SpecBrokerFair ==
    /\ InitBroker
    /\ [][NextBrokerFair]_vars
    /\ \A s \in FairSessionIds : WF_vars(ConsumerNext(s))

----
\* Properties of the broker.

SessionIds == 1 .. MaxSessions

Active(s) == sessions[s].state = "ACTIVE"
Cancelled(s) == sessions[s].state = "CANCELLED"

\* What is queued for session s and not yet read.
Queued(s) ==
    IF sessions[s].iter \in DOMAIN iterators
    THEN iterators[sessions[s].iter].pushQueue ELSE <<>>

\* Session s has handed its consumer the n-th event of the store.
Delivered(s, n) ==
    LET k == n - sessions[s].start
    IN  IF k \in 1 .. Len(sessions[s].received) /\ n \in 1 .. Len(geoDataStore)
        THEN sessions[s].received[k] = geoDataStore[n] ELSE FALSE

\* The events published while session s was ACTIVE, in emission order.
PublishedWhileActive(s) ==
    IF Active(s) THEN SubSeq(geoDataStore, sessions[s].start + 1, Len(geoDataStore))
    ELSE IF Cancelled(s) THEN SubSeq(geoDataStore, sessions[s].start + 1, sessions[s].stop)
    ELSE <<>>

IsPrefix(p, q) == Len(p) <= Len(q) /\ p = SubSeq(q, 1, Len(p))

Occurrences(q, e) == Cardinality({ i \in 1 .. Len(q) : q[i] = e })

\* The position of event e in the store (0 if it is not there).
StoreIndex(e) ==
    IF \E n \in 1 .. Len(geoDataStore) : geoDataStore[n] = e
    THEN CHOOSE n \in 1 .. Len(geoDataStore) : geoDataStore[n] = e
    ELSE 0

C1_NoDropNoDuplicate ==
    \A s \in SessionIds :
        /\ Active(s) => sessions[s].received \o Queued(s) = PublishedWhileActive(s)
        /\ Cancelled(s) => IsPrefix(sessions[s].received, PublishedWhileActive(s))
        /\ \A e \in Range(geoDataStore) : Occurrences(sessions[s].received, e) <= 1

C1_EventuallyDelivered ==
    \A s \in SessionIds : \A n \in 1 .. MaxTicks :
        (Active(s) /\ sessions[s].start < n /\ n <= Len(geoDataStore))
            ~> (Cancelled(s) \/ Delivered(s, n))

\* C1: a session hands its consumer every event published while it is ACTIVE
\* exactly once: while it is ACTIVE, what it has delivered followed by what it
\* still has queued is exactly the run of the store published since it
\* subscribed; a cancelled session has delivered a duplicate-free prefix of
\* the run published while it was ACTIVE; and while the consumer keeps
\* reading, every such event is eventually delivered unless the session is
\* cancelled first.
C1_ExactlyOnce == []C1_NoDropNoDuplicate /\ C1_EventuallyDelivered

\* A session that joined after the first publish has delivered an event
\* and has a later one queued.
C1_Witness ==
    \E s \in SessionIds :
        /\ Active(s)
        /\ sessions[s].start >= 1
        /\ Len(sessions[s].received) >= 1
        /\ Queued(s) # <<>>

\* C2: every session observes events in emission order: the store positions
\* of the events a session has received are strictly increasing, so two
\* sessions that both received two events received them in the same order.
C2_EmissionOrder ==
    /\ \A s \in SessionIds : \A i, j \in 1 .. Len(sessions[s].received) :
          i < j => /\ StoreIndex(sessions[s].received[i]) >= 1
                   /\ StoreIndex(sessions[s].received[i]) < StoreIndex(sessions[s].received[j])
    /\ \A s, t \in SessionIds :
          \A i, j \in 1 .. Len(sessions[s].received) :
          \A k, l \in 1 .. Len(sessions[t].received) :
              (/\ sessions[s].received[i] = sessions[t].received[k]
               /\ sessions[s].received[j] = sessions[t].received[l]
               /\ i < j) => k < l

\* Two sessions were live across the same two publishes and each has
\* received both events.
C2_Witness ==
    \E s, t \in SessionIds :
        /\ s # t
        /\ Len(sessions[s].received) >= 2
        /\ Len(sessions[t].received) >= 2
        /\ \E i \in 1 .. Len(sessions[t].received) :
              sessions[t].received[i] = sessions[s].received[2]

\* A step that cancels session a.
Cancels(a) == Active(a) /\ sessions'[a].state = "CANCELLED"

C3_CancelLeavesOthers ==
    \A a, b \in SessionIds :
        (Cancels(a) /\ b # a /\ Active(b)) =>
            /\ sessions'[b] = sessions[b]
            /\ iterators'[sessions[b].iter] = iterators[sessions[b].iter]

C3_OthersStillServed ==
    \A a, b \in SessionIds :
        (Cancelled(a) /\ b # a /\ Active(b)) =>
            /\ iterators[sessions[b].iter].running
            /\ sessions[b].received \o Queued(b) = PublishedWhileActive(b)

\* C3: cancelling session a changes nothing of another ACTIVE session b
\* (what b has received, what is queued for it, its pending read), and b goes
\* on being served: beside a cancelled session, what b has received followed
\* by what it has queued is still exactly what was published while b is ACTIVE.
C3_Isolation == [][C3_CancelLeavesOthers]_vars /\ []C3_OthersStillServed

\* Session a was cancelled and session b has since received an event
\* published after the cancel.
C3_Witness ==
    \E a, b \in SessionIds :
        /\ Cancelled(a) /\ Active(b) /\ a # b
        /\ \E i \in 1 .. Len(sessions[b].received) :
              StoreIndex(sessions[b].received[i]) > sessions[a].stop

\* A step that publishes.
Publishes == Len(geoDataStore') = Len(geoDataStore) + 1

C4_Step ==
    \A s \in SessionIds :
        /\ Cancelled(s) => /\ sessions'[s].state = "CANCELLED"
                           /\ sessions'[s].received = sessions[s].received
                           /\ iterators'[sessions[s].iter].pushQueue = <<>>
        /\ Active(s) => sessions'[s].state \in {"ACTIVE", "CANCELLED"}
        /\ sessions[s].state = "NONE" => sessions'[s].state \in {"NONE", "ACTIVE"}
        /\ (Publishes /\ Active(s)) =>
              LET q == sessions'[s].received \o iterators'[sessions[s].iter].pushQueue
              IN  q # <<>> /\ q[Len(q)] = geoDataStore'[Len(geoDataStore')]

\* C4: a session only moves NONE -> ACTIVE -> CANCELLED and CANCELLED is
\* terminal: a cancelled session receives nothing more and nothing is queued
\* for it, while every publish reaches each session that is ACTIVE.
C4_CancelledIsTerminal == [][C4_Step]_vars

\* Both sessions received E, session a was then cancelled, and E2 has reached
\* session b only.
C4_Witness ==
    \E a, b \in SessionIds :
        /\ Cancelled(a) /\ Active(b)
        /\ Len(geoDataStore) >= 2
        /\ sessions[a].received = <<geoDataStore[1]>>
        /\ sessions[b].received = <<geoDataStore[1], geoDataStore[2]>>
        /\ sessions[a].stop = 1

----
\* The generator specification: the random walk alone, no consumer.

\* Positions the walk is started from: the configured pool positions, and
\* positions it has drifted to after earlier ticks, with one member just
\* inside the north-east corner of the box and one just inside the
\* south-west corner (not on the 1e-6 degree grid, as a sum of random
\* perturbations is not).
DriftedPositions ==
    [PoolPositions EXCEPT
        !["VEHICLE-001"] = [lat |-> BOUNDS.maxLat - 400005, lon |-> BOUNDS.maxLon - 399997],
        !["VEHICLE-002"] = [lat |-> BOUNDS.minLat + 400005, lon |-> BOUNDS.minLon + 399997]]

InitGen ==
    /\ now = 0
    /\ counter = 0
    /\ currentPositions \in {PoolPositions, DriftedPositions}
    /\ geoDataStore = <<>>
    /\ iterators = [k \in 1 .. MaxSessions |-> NoIterator]
    /\ sessions = [s \in 1 .. MaxSessions |-> NoSession]
    /\ held = NoResults
    /\ simulator = [state |-> "running", pool |-> IDENTIFIER_POOL]
    /\ InitClient

\* IDENTIFIER_POOL[Math.floor(Math.random() * IDENTIFIER_POOL.length)] and the
\* two Math.random() draws of the perturbation.
TickGen ==
    /\ counter < MaxGenTicks
    /\ \E i \in 1 .. Min(NumGenVehicles, Len(IDENTIFIER_POOL)) :
       \E kLat, kLon \in 0 .. RandomRes - 1 :
          Tick(i, kLat, kLon, 1)

NextGen == TickGen

SpecGen == InitGen /\ [][NextGen]_vars

\* C5: every generated event lies in the bounding box, 35.0 <= lat <= 60.0
\* and -10.0 <= lon <= 30.0 (event coordinates in 1e-6 degree), and so does
\* the position stored for every pool member (in 1e-7 degree).
C5_InsideBoundingBox ==
    /\ \A n \in 1 .. Len(geoDataStore) :
          /\ 35000000 <= geoDataStore[n].lat /\ geoDataStore[n].lat <= 60000000
          /\ -10000000 <= geoDataStore[n].lon /\ geoDataStore[n].lon <= 30000000
    /\ \A id \in VehicleIds :
          /\ 350000000 <= currentPositions[id].lat /\ currentPositions[id].lat <= 600000000
          /\ -100000000 <= currentPositions[id].lon /\ currentPositions[id].lon <= 300000000

\* The walk has been clamped at the southern and at the eastern edge: one
\* event sits on lat 35.0 and one on lon 30.0, from members that started
\* strictly inside the box.
C5_Witness ==
    /\ \E n \in 1 .. Len(geoDataStore) : geoDataStore[n].lat = 35000000
    /\ \E n \in 1 .. Len(geoDataStore) : geoDataStore[n].lon = 30000000

----
\* The client specification: events arrive, the user filters and
\* acknowledges in any order.

\* The n-th event to arrive, for pool member i: an event as the generator
\* makes them, 0.001 degree further north-west than the one before.
ArrivingEvent(n, i) ==
    LET vehicle == IDENTIFIER_POOL[i]
    IN  MakeGeoData(vehicle, [lat |-> vehicle.lat + 10000 * n, lon |-> vehicle.lon - 10000 * n], n, n)

ClientVehicles == 1 .. Min(NumClientVehicles, Len(IDENTIFIER_POOL))

Arrive ==
    /\ Len(arrived) < MaxClientEvents
    /\ \E i \in ClientVehicles : NewGeoDataEffect(ArrivingEvent(Len(arrived) + 1, i))
    /\ UNCHANGED streamVars

ToggleCheckbox == \E i \in ClientVehicles : CheckboxClick(IDENTIFIER_POOL[i].id)

ClickNotification == \E i \in 1 .. Len(notifications) : handleNotificationClick(notifications[i])

ClearNotifications == notifications # <<>> /\ handleClearAllNotifications

NextClient ==
    \/ Arrive
    \/ ToggleCheckbox
    \/ handleSelectAll
    \/ handleClearAll
    \/ ClickNotification
    \/ ClearNotifications

SpecClient == InitBroker /\ [][NextClient]_vars

----
\* Properties of the client.

\* A feature that is drawn: it has no empty style of its own.
Rendered(feature) == feature.style = "layer"

LatestPoints(identifier) ==
    { i \in 1 .. Len(pointsSource) :
        pointsSource[i].identifier = identifier /\ pointsSource[i].isLatest }

\* C6: for each entity identifier, at most one point feature of the map
\* carries isLatest = true.
C6_AtMostOneLatest ==
    \A id \in VehicleIds : Cardinality(LatestPoints(id)) <= 1

\* Events of two entities arrived interleaved: the first entity has an
\* earlier point, then a point of the other entity, then its latest point.
C6_Witness ==
    \E i, j, k \in 1 .. Len(pointsSource) :
        /\ i < j /\ j < k
        /\ pointsSource[i].identifier = pointsSource[k].identifier
        /\ pointsSource[j].identifier # pointsSource[i].identifier
        /\ ~pointsSource[i].isLatest
        /\ pointsSource[k].isLatest

\* C7: every point and every route line is rendered exactly when its entity
\* passes the filter: all of them under the empty filter set, only those
\* whose identifier is in the set otherwise.
C7_FilterDecidesRendering ==
    /\ \A i \in 1 .. Len(pointsSource) :
          Rendered(pointsSource[i]) <=> Visible(filteredIdentifiers, pointsSource[i].identifier)
    /\ \A i \in 1 .. Len(linesSource) :
          Rendered(linesSource[i]) <=> Visible(filteredIdentifiers, linesSource[i].identifier)

\* The filter a click on the checkbox of identifier would leave.
FilterAfterClick(identifier) ==
    CheckboxFilter(filteredIdentifiers, identifier, ~Visible(filteredIdentifiers, identifier))

\* C14: a sidebar checkbox toggles the visibility of its own vehicle and of no
\* other: from any filter state, unchecking the checkbox of a vehicle that is
\* shown leaves a filter under which it is no longer shown, checking it shows
\* it again, and every other vehicle's visibility stays as it was.
C14_CheckboxTogglesOne ==
    \A id \in VehicleIds :
        /\ Visible(FilterAfterClick(id), id) = ~Visible(filteredIdentifiers, id)
        /\ \A other \in VehicleIds \ {id} :
              Visible(FilterAfterClick(id), other) = Visible(filteredIdentifiers, other)

C10_Step ==
    \A i \in 1 .. Len(notifications) :
        LET d == notifications[i]
        IN  (focusPoint' = <<d>> /\ focusPoint # <<d>>) =>
              /\ \A j \in 1 .. Len(notifications') : notifications'[j].id # d.id
              /\ notifications' = SubSeq(notifications, 1, i - 1)
                                    \o SubSeq(notifications, i + 1, Len(notifications))
              /\ geoDataByIdentifier' = geoDataByIdentifier
              /\ pointsSource' = pointsSource
              /\ linesSource' = linesSource
              /\ recentData' = recentData
              /\ \E k \in 1 .. Len(TrailOf(geoDataByIdentifier', d.identifier)) :
                    geoDataByIdentifier'[d.identifier][k] = d
              /\ \E k \in 1 .. Len(pointsSource') : pointsSource'[k].id = d.id

\* C10: clicking the notification with id X (the step that focuses the map on
\* X) removes the entry with id X from the notification queue, keeps the
\* other entries in order, and leaves the entity trails, the point and line
\* features and the recent-events window unchanged, so the trail and the map
\* still hold the point of X.
C10_ClickOnlyAcknowledges == [][C10_Step]_vars

\* A notification was clicked while others were pending: it is gone from the
\* queue, the others remain, and its point is still in its entity's trail.
C10_Witness ==
    /\ notifications # <<>>
    /\ \E x \in Range(focusPoint) :
          /\ \A j \in 1 .. Len(notifications) : notifications[j].id # x.id
          /\ \E k \in 1 .. Len(TrailOf(geoDataByIdentifier, x.identifier)) :
                geoDataByIdentifier[x.identifier][k] = x

----
\* The long-run specification: one vehicle's events arrive, more than the
\* caps of the client's bounded lists hold; the user acts early on only.

ArriveCap ==
    /\ Len(arrived) < MaxCapEvents
    /\ NewGeoDataEffect(ArrivingEvent(Len(arrived) + 1, 1))
    /\ UNCHANGED streamVars

ClickNotificationCap ==
    /\ Len(arrived) <= CapUiWindow
    /\ ClickNotification

ClearNotificationsCap ==
    /\ Len(arrived) <= CapUiWindow
    /\ ClearNotifications

NextCap ==
    \/ ArriveCap
    \/ ClickNotificationCap
    \/ ClearNotificationsCap

SpecCap == InitBroker /\ [][NextCap]_vars

----
\* Properties of the client's bounded lists.

\* The last n elements of q (all of q if it has fewer).
LastN(q, n) == SubSeq(q, Len(q) - Min(n, Len(q)) + 1, Len(q))

\* C8: after more than 100 events were passed to handleNewGeoData with no
\* acknowledgement or clear, the notification queue has exactly 100 entries,
\* the 100 most recent events in arrival order.
C8_NotificationCap ==
    (~uiActed /\ Len(arrived) > 100) =>
        /\ Len(notifications) = 100
        /\ notifications = SubSeq(arrived, Len(arrived) - 99, Len(arrived))

\* 103 events arrived and none was acknowledged or cleared.
C8_Witness == ~uiActed /\ Len(arrived) >= 103 /\ Len(notifications) = 100

\* C9: the recent-events window never holds more than 50 entries; it is
\* exactly the last min(n, 50) of the n events that arrived, in arrival order.
C9_RecentWindowCap ==
    /\ Len(recentData) <= 50
    /\ recentData = LastN(arrived, 50)

----
\* The generator's progress.

\* The broker with a timer that keeps firing: a tick that can run eventually
\* runs.  Nothing is assumed of the consumers: they may never read.
SpecGeneratorFair ==
    /\ InitBroker
    /\ [][NextBrokerFair]_vars
    /\ WF_vars(TickBroker)

\* The generator can run its next tick.
C16_TickEnabled == counter < MaxTicks => ENABLED TickBroker

\* C16: publish returns to the generator without waiting for any session:
\* whatever the sessions do (never read their queues, disconnect), the next
\* tick can always run, every tick completes, and after n ticks the store
\* holds n events.
C16_PublishNeverBlocks ==
    /\ []C16_TickEnabled
    /\ [](Len(geoDataStore) = counter)
    /\ <>[](counter = MaxTicks /\ Len(geoDataStore) = MaxTicks)

\* All ticks ran while a session was subscribed that never read a single
\* event: its whole share is still queued.
C16_Witness ==
    /\ counter = MaxTicks
    /\ \E s \in SessionIds :
          /\ Active(s)
          /\ sessions[s].received = <<>>
          /\ Len(Queued(s)) >= 2

----
\* Properties of the event store.

C11_Step == IsPrefix(geoDataStore, geoDataStore')

\* The store holds one event per tick, the n-th being the one generated n-th.
C11_StoreIsHistory ==
    /\ Len(geoDataStore) = counter
    /\ \A n \in 1 .. Len(geoDataStore) : geoDataStore[n].id[3] = n
    /\ \A m, n \in 1 .. Len(geoDataStore) :
          m < n => geoDataStore[m].timestamp <= geoDataStore[n].timestamp

\* C11: the event store is append-only: across any step its previous contents
\* are a prefix of its new contents (nothing removed or reordered), and after
\* n ticks it is exactly the n generated events in emission order.
C11_AppendOnlyStore == [][C11_Step]_vars /\ []C11_StoreIsHistory

\* Three ticks ran while a session came and went.
C11_Witness ==
    /\ Len(geoDataStore) >= 3
    /\ \E s \in SessionIds : Cancelled(s)

----
\* The store specification: the generator appends, callers run the snapshot
\* query at any moment.

TickStore ==
    /\ counter < MaxStoreTicks
    /\ \E i \in 1 .. Min(NumGenVehicles, Len(IDENTIFIER_POOL)) :
          Tick(i, RandomRes \div 2, RandomRes \div 2, 1)

NextStore ==
    \/ TickStore
    \/ \E c \in 1 .. MaxCallers : Query(c)

SpecStore == InitBroker /\ [][NextStore]_vars

\* C12: the snapshot query returns a point-in-time copy: the sequence a caller
\* obtained when the store held k events still has exactly those k events
\* after any number of later publishes.
C12_SnapshotIsCopy ==
    \A c \in 1 .. MaxCallers :
        held[c] # <<>> => Deref(held[c][1].result) = held[c][1].taken

----
\* The live-client specification: the generator publishes, one browser client
\* connects, subscribes, loses its socket and retries, while the server serves
\* and cleans up the sessions the client's sockets opened.

TickLive ==
    /\ counter < MaxLiveTicks
    /\ \E i \in {1} : Tick(i, RandomRes \div 2, RandomRes \div 2, 1)

\* The subscribe message of the client's socket reaches the server.
ServerSubscribe == ws.state = "connected" /\ Subscribe(ws.session)

\* The server's transport reads the iterator of the client's session.
ServerRead == ws.state = "connected" /\ ConsumerNext(ws.session)

\* The server notices that the socket of a session is gone.
ServerClose == \E s \in DOMAIN sessions : s # ws.session /\ Unsubscribe(s)

NextLive ==
    \/ TickLive
    \/ Connect
    \/ ServerSubscribe
    \/ ServerRead
    \/ MessageArrives
    \/ RunEffect
    \/ ConnectionLost
    \/ RetryFails
    \/ RetrySucceeds
    \/ ServerClose

SpecLive == InitBroker /\ [][NextLive]_vars

\* The events published before the first one the client was handed live.
EarlierEvents ==
    IF incoming = <<>> THEN {}
    ELSE { geoDataStore[n] : n \in 1 .. StoreIndex(incoming[1]) - 1 }

\* C13: a client that starts after k >= 1 events were published performs an
\* initial snapshot fetch before it consumes the live stream, so once it has
\* processed a live event its entity trails contain the k earlier events too.
C13_InitialSnapshotFetched ==
    arrived # <<>> =>
        \A e \in EarlierEvents : e \in Range(TrailOf(geoDataByIdentifier, e.identifier))

\* C15: every event that arrives on the live subscription is processed exactly
\* once (appended once to its entity trail, once to the recent window and once
\* to the notification queue), also when two or more events arrive before the
\* client has processed the previous one.
C15_ProcessedExactlyOnce ==
    ~effectPending =>
        /\ arrived = incoming
        /\ \A i \in 1 .. Len(incoming) :
              LET e == incoming[i]
              IN  /\ Occurrences(TrailOf(geoDataByIdentifier, e.identifier), e) = 1
                  /\ Occurrences(recentData, e) = 1
                  /\ Occurrences(notifications, e) = 1

\* What the client has reconstructed from the stream.
Reconstructed == <<geoDataByIdentifier, pointsSource, linesSource, recentData, notifications>>

\* The ids of a sequence of events or features, in order.
IdsOf(q) == [i \in 1 .. Len(q) |-> q[i].id]

\* Every list of the reconstructed state grows at its tail only.
AppendedAfterHistory ==
    /\ \A id \in DOMAIN geoDataByIdentifier :
          /\ id \in DOMAIN geoDataByIdentifier'
          /\ IsPrefix(geoDataByIdentifier[id], geoDataByIdentifier'[id])
    /\ IsPrefix(IdsOf(pointsSource), IdsOf(pointsSource'))
    /\ IsPrefix(recentData, recentData')
    /\ IsPrefix(notifications, notifications')

C17_Step ==
    /\ ws'.state # ws.state => Reconstructed' = Reconstructed
    /\ ws.state # "connected" => incoming' = incoming
    /\ AppendedAfterHistory

C19_Step ==
    /\ (ws.state = "connected" /\ ws'.state = "waiting") => ws'.wait = RetryBaseMs
    /\ (ws.state = "waiting" /\ ws'.state = "waiting" /\ ws' # ws) =>
          /\ ws'.retries = ws.retries + 1
          /\ ws'.wait = Min(2 * ws.wait, RetryCeilingMs)
          /\ ws'.wait > ws.wait \/ ws'.wait = RetryCeilingMs
    /\ (ws.state = "waiting" /\ ws'.state = "gaveUp") => ws.retries = 4 /\ ws'.retries = 5
    /\ ws.state = "gaveUp" => ws'.state = "gaveUp"

----
\* The start-up specification: the simulator is built with a pool, possibly an
\* empty one, and started.

InitStart ==
    /\ now = 0
    /\ counter = 0
    /\ simulator \in { [state |-> "idle", pool |-> p] : p \in {<<>>, IDENTIFIER_POOL} }
    /\ currentPositions = [id \in { simulator.pool[i].id : i \in 1 .. Len(simulator.pool) } |->
                              PoolPositions[id]]
    /\ geoDataStore = <<>>
    /\ iterators = [k \in 1 .. MaxSessions |-> NoIterator]
    /\ sessions = [s \in 1 .. MaxSessions |-> NoSession]
    /\ held = NoResults
    /\ InitClient

\* startGeoSimulator: two log lines and setInterval; the pool is not looked at.
startGeoSimulator ==
    /\ simulator.state = "idle"
    /\ simulator' = [simulator EXCEPT !.state = "running"]
    /\ UNCHANGED <<now, counter, currentPositions, geoDataStore, iterators, sessions, held>>
    /\ UNCHANGED clientVars

\* The timer fires and the pool has members.
TickStart ==
    /\ simulator.state = "running"
    /\ simulator.pool # <<>>
    /\ counter < MaxGenTicks
    /\ \E i \in 1 .. Min(NumGenVehicles, Len(simulator.pool)) :
       \E kLat, kLon \in 0 .. RandomRes - 1 :
          Tick(i, kLat, kLon, 1)

\* The timer fires and the pool is empty: counter++ runs, IDENTIFIER_POOL[0]
\* is undefined and reading vehicle.id throws inside the timer callback.
TickEmptyPool ==
    /\ simulator.state = "running"
    /\ simulator.pool = <<>>
    /\ counter' = counter + 1
    /\ simulator' = [simulator EXCEPT !.state = "failed"]
    /\ UNCHANGED <<now, currentPositions, geoDataStore, iterators, sessions, held>>
    /\ UNCHANGED clientVars

NextStart ==
    \/ startGeoSimulator
    \/ TickStart
    \/ TickEmptyPool

SpecStart == InitStart /\ [][NextStart]_vars

----
\* The event-id specification: the timer callback may run again within the
\* same millisecond of Date.now() (dt = 0) or later (dt = 1).

TickIds ==
    /\ counter < MaxIdTicks
    /\ \E i \in 1 .. Min(NumGenVehicles, Len(IDENTIFIER_POOL)) :
       \E dt \in {0, 1} :
          Tick(i, RandomRes \div 2, RandomRes \div 2, dt)

NextIds == TickIds

SpecIds == InitBroker /\ [][NextIds]_vars

\* C20: every generated event's id differs from every other event's id in the
\* same process, for any number of ticks, also when two events are generated
\* within the same millisecond.
C20_UniqueIds ==
    \A m, n \in 1 .. Len(geoDataStore) :
        m # n => IdString(geoDataStore[m].id) # IdString(geoDataStore[n].id)

\* Three events generated in the same millisecond, two of them for the same
\* vehicle.
C20_Witness ==
    \E l, m, n \in 1 .. Len(geoDataStore) :
        /\ l < m /\ m < n
        /\ geoDataStore[l].timestamp = geoDataStore[n].timestamp
        /\ geoDataStore[l].identifier = geoDataStore[n].identifier

----
\* The tick specification: the generator picks any of the first pool members
\* on each tick while consumers subscribe, read and cancel.

TickPublish ==
    /\ counter < MaxGenTicks
    /\ \E i \in 1 .. Min(NumGenVehicles, Len(IDENTIFIER_POOL)) :
          Tick(i, RandomRes \div 2, RandomRes \div 2, 1)

NextTick ==
    \/ TickPublish
    \/ \E s \in FairSessionIds : Subscribe(s)
    \/ \E s \in FairSessionIds : ConsumerNext(s)
    \/ \E s \in FairSessionIds : Unsubscribe(s)

SpecTick == InitBroker /\ [][NextTick]_vars

\* Everything session s was handed by the broker: what its consumer has read
\* followed by what is still queued for it.
Handed(s) == sessions[s].received \o Queued(s)

C21_Step ==
    counter' # counter =>
        /\ counter' = counter + 1
        /\ Len(geoDataStore') = Len(geoDataStore) + 1
        /\ LET e == geoDataStore'[Len(geoDataStore')]
           IN  /\ e.id[3] = counter'
               /\ \A id \in VehicleIds \ {e.identifier} :
                     currentPositions'[id] = currentPositions[id]
               /\ Round6(currentPositions'[e.identifier].lat) = e.lat
               /\ Round6(currentPositions'[e.identifier].lon) = e.lon
               /\ \A s \in SessionIds :
                     Handed(s)' = IF Active(s) THEN Append(Handed(s), e) ELSE Handed(s)

\* C21: each generator tick produces exactly one event and publishes it
\* exactly once (every active session is handed it once, no other session is
\* handed anything), and writes the stored position of exactly one pool
\* member, the one the event is for; the stored positions of all other pool
\* members are unchanged by the tick.
C21_OneEventOneMember == [][C21_Step]_vars

\* Two ticks for two different members, both handed to an active session,
\* the second member's position moved and the first one's kept since its tick.
C21_Witness ==
    /\ Len(geoDataStore) >= 2
    /\ geoDataStore[1].identifier # geoDataStore[2].identifier
    /\ Round6(currentPositions[geoDataStore[1].identifier].lat) = geoDataStore[1].lat
    /\ currentPositions[geoDataStore[2].identifier] # PoolPositions[geoDataStore[2].identifier]
    /\ \E s \in SessionIds : Active(s) /\ Len(Handed(s)) >= 2

----
\* Properties of the map features and of the client's lists.

\* The point features of an entity, as positions in the points source.
PointsOf(identifier) ==
    { i \in 1 .. Len(pointsSource) : pointsSource[i].identifier = identifier }

\* C22: whenever an entity's trail is non-empty, exactly one of its points is
\* flagged latest, and it is the point of the most recently appended trail
\* element; every earlier point of that entity is not flagged.
C22_LatestIsLastOfTrail ==
    \A id \in DOMAIN geoDataByIdentifier :
        LET trail == geoDataByIdentifier[id]
        IN  trail # <<>> =>
              /\ Cardinality(PointsOf(id)) = Len(trail)
              /\ \A i \in PointsOf(id) :
                    pointsSource[i].isLatest <=> pointsSource[i].id = trail[Len(trail)].id
              /\ \E i \in PointsOf(id) :
                    /\ pointsSource[i].isLatest
                    /\ pointsSource[i].pointIndex = Len(trail)

\* Three events of one entity arrived: its trail has length 3 and only the
\* point of the 3rd is flagged.
C22_Witness ==
    \E id \in DOMAIN geoDataByIdentifier :
        /\ Len(geoDataByIdentifier[id]) = 3
        /\ \A i \in PointsOf(id) : pointsSource[i].isLatest <=> pointsSource[i].pointIndex = 3
        /\ Cardinality(PointsOf(id)) = 3

\* The route lines of an entity, as positions in the lines source.
LinesOf(identifier) ==
    { i \in 1 .. Len(linesSource) : linesSource[i].identifier = identifier }

\* C23: after each arriving event, for every entity: with at least 2 points in
\* its trail there is exactly one route line for it, whose coordinate list is
\* the trail's coordinates in trail order; with fewer than 2 there is none.
C23_RouteFollowsTrail ==
    \A id \in VehicleIds :
        LET trail == TrailOf(geoDataByIdentifier, id)
        IN  IF Len(trail) >= 2
            THEN /\ Cardinality(LinesOf(id)) = 1
                 /\ \A i \in LinesOf(id) :
                       /\ linesSource[i].id = LineFeatureId(id)
                       /\ Len(linesSource[i].coords) = Len(trail)
                       /\ \A k \in 1 .. Len(trail) :
                             linesSource[i].coords[k] = fromLonLat(<<trail[k].lon, trail[k].lat>>)
            ELSE LinesOf(id) = {}

\* One entity has three points and a line through the three, in order; the
\* three coordinates differ.
C23_Witness ==
    \E id \in VehicleIds : \E i \in LinesOf(id) :
        /\ Len(TrailOf(geoDataByIdentifier, id)) = 3
        /\ Len(linesSource[i].coords) = 3
        /\ linesSource[i].coords[1] # linesSource[i].coords[2]
        /\ linesSource[i].coords[2] # linesSource[i].coords[3]

\* A feature without its style.
Unstyled(feature) == [feature EXCEPT !.style = "layer"]

C24_Step ==
    filteredIdentifiers' # filteredIdentifiers =>
        /\ geoDataByIdentifier' = geoDataByIdentifier
        /\ Len(pointsSource') = Len(pointsSource)
        /\ \A i \in 1 .. Len(pointsSource) : Unstyled(pointsSource'[i]) = Unstyled(pointsSource[i])
        /\ Len(linesSource') = Len(linesSource)
        /\ \A i \in 1 .. Len(linesSource) : Unstyled(linesSource'[i]) = Unstyled(linesSource[i])
        /\ recentData' = recentData
        /\ notifications' = notifications

\* C24: changing the visibility filter (checkbox, All, None) changes only
\* visibility: the entity trails, the set of point and line features, the
\* latest flags, the recent window and the notification queue are unchanged.
C24_FilterChangesVisibilityOnly == [][C24_Step]_vars

\* A filter is set that hides an entity which has points and a line, and
\* these are still there, hidden.
C24_Witness ==
    \E id \in VehicleIds :
        /\ ~Visible(filteredIdentifiers, id)
        /\ \E i \in PointsOf(id) : ~Rendered(pointsSource[i]) /\ pointsSource[i].isLatest
        /\ \E i \in LinesOf(id) : ~Rendered(linesSource[i])
        /\ Len(TrailOf(geoDataByIdentifier, id)) >= 2

\* A step of the Clear All button: the queue changes, no event was processed
\* and the focus did not move.
ClearAllStep ==
    /\ notifications' # notifications
    /\ arrived' = arrived
    /\ focusPoint' = focusPoint

C28_Step ==
    /\ ClearAllStep =>
          /\ notifications' = <<>>
          /\ geoDataByIdentifier' = geoDataByIdentifier
          /\ pointsSource' = pointsSource
          /\ linesSource' = linesSource
          /\ recentData' = recentData
    /\ (notifications = <<>> /\ arrived' # arrived) =>
          notifications' = <<arrived'[Len(arrived')]>>

\* C28: Clear All empties the notification queue in one step and leaves the
\* entity trails, the map features and the recent window unchanged; events
\* arriving afterwards are queued again, starting from an empty queue.
C28_ClearAllOnlyEmptiesQueue == [][C28_Step]_vars

\* Two events were queued and cleared together (none was clicked), then a
\* third arrived: it is alone in the queue, and the recent window and the
\* trails still hold all three.
C28_Witness ==
    /\ uiActed /\ focusPoint = <<>>
    /\ Len(arrived) = 3
    /\ notifications = <<arrived[3]>>
    /\ recentData = arrived
    /\ Len(pointsSource) = 3

\* The events of one entity among those the client has processed, in the
\* order it processed them.
ProcessedFor(identifier) == SelectSeq(arrived, LAMBDA e : e.identifier = identifier)

\* C30: in every reachable client state each entity's trail is exactly the
\* subsequence of the processed events with that identifier, in arrival
\* order: evictions from the recent window or the notification queue,
\* acknowledgements and clears never remove or reorder a trail element.
C30_TrailIsProcessedHistory ==
    \A id \in VehicleIds : TrailOf(geoDataByIdentifier, id) = ProcessedFor(id)

\* More events were processed than the recent window and the notification
\* queue hold, after an acknowledgement or a clear: both lists have evicted,
\* the trail has them all.
C30_Witness ==
    /\ uiActed
    /\ Len(arrived) > 100
    /\ Len(recentData) < Len(arrived)
    /\ Len(notifications) < Len(arrived)
    /\ \E id \in VehicleIds : Len(TrailOf(geoDataByIdentifier, id)) = Len(arrived)

----
\* Further properties of the broker.

C25_Step ==
    \A s \in SessionIds :
        /\ Cancelled(s) =>
              /\ sessions'[s].received = sessions[s].received
              /\ sessions'[s] # sessions[s] => sessions'[s].done
        /\ (Active(s) /\ sessions[s].waiting /\ ~sessions'[s].waiting) =>
              \/ /\ Publishes
                 /\ sessions'[s].state = "ACTIVE"
                 /\ sessions'[s].received =
                       Append(sessions[s].received, geoDataStore'[Len(geoDataStore')])
              \/ /\ sessions'[s].state = "CANCELLED"
                 /\ sessions'[s].done
                 /\ sessions'[s].received = sessions[s].received
        /\ sessions[s].done => sessions'[s].done

\* A read is suspended only on an active session with nothing queued, and
\* only a cancelled session has seen the end of its stream.
C25_Suspended ==
    \A s \in SessionIds :
        /\ sessions[s].waiting => Active(s) /\ Queued(s) = <<>>
        /\ sessions[s].done => Cancelled(s)

\* C25: a read that is pending on a session when it is cancelled, or issued
\* after the cancel, ends with the end-of-stream signal and never returns a
\* further event; a read on an ACTIVE session with an empty queue stays
\* suspended until the next publish or the cancel.
C25_ReadEndsOrWaits == [][C25_Step]_vars /\ []C25_Suspended

\* One session was cancelled and its consumer has been told the stream ended,
\* while the other, which has been served an event, is suspended in a read.
C25_Witness ==
    \E a, b \in SessionIds :
        /\ Cancelled(a) /\ sessions[a].done
        /\ Active(b) /\ sessions[b].waiting
        /\ sessions[b].received # <<>>

\* C26: addGeoData appends the event to the store before fanning it out, so
\* in every reachable state each event a session has received, or has queued
\* for its consumer, is present in the event store, and so in what the
\* geoDataList query returns at that moment.
C26_ReceivedIsStored ==
    \A s \in SessionIds :
        \A e \in Range(Handed(s)) :
            /\ e \in Range(geoDataStore)
            /\ e \in Range(Deref(geoDataList))

\* Both sessions have been served the latest event of a store of three.
C26_Witness ==
    /\ Len(geoDataStore) = MaxTicks
    /\ \A s \in SessionIds :
          /\ sessions[s].received # <<>>
          /\ sessions[s].received[Len(sessions[s].received)] = geoDataStore[Len(geoDataStore)]

\* C29: a session never receives an event published before it was created:
\* what it has delivered, in order, is the run of the store that begins
\* right after the store length at subscribe time, and none of it is among
\* the events the store held at that time.
C29_ContiguousRunFromSubscribe ==
    \A s \in SessionIds :
        /\ sessions[s].start + Len(sessions[s].received) <= Len(geoDataStore)
        /\ \A k \in 1 .. Len(sessions[s].received) :
              /\ sessions[s].received[k] = geoDataStore[sessions[s].start + k]
              /\ \A n \in 1 .. sessions[s].start :
                    geoDataStore[n] # sessions[s].received[k]

\* Two sessions created at different store lengths have both delivered; the
\* later one started after two publishes and its first event is the third.
C29_Witness ==
    \E a, b \in SessionIds :
        /\ sessions[a].start = 0 /\ sessions[a].received # <<>>
        /\ sessions[b].start = 2 /\ sessions[b].received # <<>>
        /\ sessions[b].received[1] = geoDataStore[3]

----
\* Further properties of the generator.

Abs(x) == IF x < 0 THEN -x ELSE x

\* Event e lies within the perturbation range of the position (lat, lon), in
\* 1e-6 degree: 0.15 degree on each axis, 0.3 degree combined.
WithinRange(e, lat, lon) ==
    /\ Abs(e.lat - lat) <= 150000
    /\ Abs(e.lon - lon) <= 150000
    /\ Abs(e.lat - lat) + Abs(e.lon - lon) <= 300000

\* The index of the latest event before the n-th for the same entity (0: none).
PreviousOf(n) ==
    LET earlier == { m \in 1 .. n - 1 : geoDataStore[m].identifier = geoDataStore[n].identifier }
    IN  IF earlier = {} THEN 0 ELSE CHOOSE m \in earlier : \A o \in earlier : o <= m

\* A tick's event is within range of the position its entity had before the
\* tick (the configured start, if the entity has not moved yet).
C27_Step ==
    Publishes =>
        LET e == geoDataStore'[Len(geoDataStore')]
        IN  WithinRange(e, Round6(currentPositions[e.identifier].lat),
                           Round6(currentPositions[e.identifier].lon))

C27_Consecutive ==
    \A n \in 1 .. Len(geoDataStore) :
        PreviousOf(n) # 0 =>
            WithinRange(geoDataStore[n], geoDataStore[PreviousOf(n)].lat,
                                         geoDataStore[PreviousOf(n)].lon)

\* C27: for one entity, each produced event lies within the per-tick
\* perturbation range of the entity's previous position: at most 0.15 degree
\* on each axis, at most 0.3 degree combined, from the entity's previous
\* event, or from the position it held before the tick for its first event.
C27_WithinPerturbationRange == [][C27_Step]_vars /\ []C27_Consecutive

\* An entity that started at its configured position moved by the full
\* 0.15 degree on both axes twice: its first event is that far from the
\* start and its second that far from the first.
C27_Witness ==
    /\ Len(geoDataStore) = 2
    /\ PreviousOf(2) = 1
    /\ Abs(geoDataStore[2].lat - geoDataStore[1].lat) = 150000
    /\ Abs(geoDataStore[2].lon - geoDataStore[1].lon) = 150000
    /\ Abs(geoDataStore[1].lat - Round6(PoolPositions[geoDataStore[1].identifier].lat)) = 150000
    /\ Abs(geoDataStore[1].lon - Round6(PoolPositions[geoDataStore[1].identifier].lon)) = 150000

----
\* Further properties of the notification queue.

\* The position at which event e arrived (0 if it never did).
ArrivalIndex(e) ==
    IF \E i \in 1 .. Len(arrived) : arrived[i] = e
    THEN CHOOSE i \in 1 .. Len(arrived) : arrived[i] = e
    ELSE 0

\* q without its k-th entry.
Without(q, k) == SubSeq(q, 1, k - 1) \o SubSeq(q, k + 1, Len(q))

C31_Queue ==
    /\ Len(notifications) <= 100
    /\ \A j, k \in 1 .. Len(notifications) :
          j < k => notifications[j].id # notifications[k].id
    /\ \A k \in 1 .. Len(notifications) : ArrivalIndex(notifications[k]) > 0
    /\ \A k \in 1 .. Len(notifications) - 1 :
          ArrivalIndex(notifications[k]) < ArrivalIndex(notifications[k + 1])

\* A step that shortens the queue without emptying it, no event arriving,
\* takes out one entry and leaves the others as they were.
C31_Step ==
    (arrived' = arrived /\ notifications' # notifications /\ notifications' # <<>>) =>
        \E k \in 1 .. Len(notifications) : notifications' = Without(notifications, k)

\* C31: under any interleaving of arriving events, acknowledgements and
\* Clear All, the notification queue holds at most 100 entries, holds no
\* event twice, and its entries are in arrival order; an acknowledgement
\* removes one entry without reordering the others.
C31_BoundedOrderedQueue == []C31_Queue /\ [][C31_Step]_vars

\* More events arrived than the queue holds, and the queue is full: an
\* event was acknowledged from between two others, which are still next to
\* each other in the queue with the later arrivals behind them.
C31_Witness ==
    /\ uiActed
    /\ Len(arrived) > 100
    /\ Len(notifications) = 100
    /\ ArrivalIndex(notifications[1]) = 1
    /\ ArrivalIndex(notifications[2]) = 3

----
\* Further properties of the map's point features.

\* C32: each point feature's pointIndex is the 1-based position of its event
\* in its entity's trail, so for every entity the pointIndex values of its
\* points are exactly 1 .. n, with no gap and no repeat, where n is the
\* length of the trail.
C32_PointIndexIsTrailPosition ==
    /\ \A i \in 1 .. Len(pointsSource) :
          LET f     == pointsSource[i]
              trail == TrailOf(geoDataByIdentifier, f.identifier)
          IN  /\ f.pointIndex \in 1 .. Len(trail)
              /\ trail[f.pointIndex].id = f.id
    /\ \A id \in VehicleIds :
          LET n == Len(TrailOf(geoDataByIdentifier, id))
          IN  /\ { pointsSource[i].pointIndex : i \in PointsOf(id) } = 1 .. n
              /\ Cardinality(PointsOf(id)) = n

\* Events of two entities arrived interleaved: the third point of the source
\* is the second of its entity and is numbered 2, the second point is the
\* first of the other entity and is numbered 1.
C32_Witness ==
    /\ Len(pointsSource) >= 3
    /\ pointsSource[3].identifier = pointsSource[1].identifier
    /\ pointsSource[2].identifier # pointsSource[1].identifier
    /\ pointsSource[3].pointIndex = 2
    /\ pointsSource[2].pointIndex = 1

====
